---- MODULE Spec2Model ----
(***************************************************************************)
(* FastCopy: the parallel copy engine of src/index.ts (coordinator) and    *)
(* src/worker.ts (copy worker).                                            *)
(*                                                                         *)
(* Strings are sequences of tokens: the name "node_modules.bak" is         *)
(* <<"node_modules", ".bak">>, the separator is the token "/".  A path     *)
(* below sourceDir is the sequence of its component names.                 *)
(***************************************************************************)
EXTENDS Integers, Sequences, FiniteSets, TLC

\* ------------------------------------------------------------------ bounds
MaxCPUs == 2        \* os.cpus().length ranges over 1..MaxCPUs
MaxFiles == 3       \* a source tree holds at most MaxFiles regular files
MaxRuns == 2        \* the program is run at most MaxRuns times on one tree
MaxBatches == 2     \* a long chunk fills MaxBatches batches and one more file

\* --------------------------------------------------------------- constants
LARGE_FILE_THRESHOLD == 10485760
BATCH_SIZE == 100

SEP == "/"

\* ------------------------------------------------------- names and strings
N_a       == <<"a.txt">>
N_sub     == <<"sub">>
N_b       == <<"b.txt">>
N_nm      == <<"node_modules">>
N_nmbak   == <<"node_modules", ".bak">>
N_git     == <<".git">>
N_config  == <<"config">>
N_x       == <<"x.txt">>

\* readdir order of the names of one directory (fixed for a static tree)
NameOrder == <<N_git, N_a, N_b, N_config, N_nm, N_nmbak, N_sub, N_x>>

\* the regular files a source tree is drawn from
FileUniverse ==
  { <<N_a>>, <<N_sub, N_b>>, <<N_sub, N_nm>>,
    <<N_sub, N_nm, N_x>>, <<N_nmbak>>, <<N_git, N_config>> }

\* directories whose readdir may fail
DirUniverse == { <<>>, <<N_sub>>, <<N_sub, N_nm>> }

ignoredPaths ==
  { <<"node_modules">>, <<".pnpm-store">>, <<"$RECYCLE.BIN">>,
    <<"System Volume Information">>, <<".next">> }

IsPrefix(s, t) == Len(s) <= Len(t) /\ SubSeq(t, 1, Len(s)) = s
IsProperPrefix(s, t) == Len(s) < Len(t) /\ SubSeq(t, 1, Len(s)) = s

\* String.prototype.startsWith
StartsWith(str, pattern) == IsPrefix(pattern, str)

\* path.join(dir, name) for a path below sourceDir
PathJoin(dir, name) == Append(dir, name)

\* path.relative(sourceDir, filePath): the components joined by the separator
RECURSIVE Relative(_)
Relative(p) ==
  IF p = <<>> THEN <<>>
  ELSE IF Len(p) = 1 THEN p[1]
  ELSE p[1] \o <<SEP>> \o Relative(Tail(p))

\* String.prototype.split(path.sep)
RECURSIVE SplitFrom(_, _)
SplitFrom(str, cur) ==
  IF str = <<>> THEN <<cur>>
  ELSE IF Head(str) = SEP THEN <<cur>> \o SplitFrom(Tail(str), <<>>)
  ELSE SplitFrom(Tail(str), Append(cur, Head(str)))

Split(str) == SplitFrom(str, <<>>)

Includes(parts, name) == \E n \in 1..Len(parts) : parts[n] = name

\* Array.prototype.slice(from, to) with 0-based, end-exclusive indices
Slice(arr, from, to) ==
  LET lo == IF from > Len(arr) THEN Len(arr) ELSE from
      hi == IF to > Len(arr) THEN Len(arr) ELSE to
  IN  IF hi <= lo THEN <<>> ELSE SubSeq(arr, lo + 1, hi)

\* Math.ceil(a / b) for a >= 0, b > 0
Ceil(a, b) == (a + b - 1) \div b

RECURSIVE Concat(_)
Concat(seqs) == IF seqs = <<>> THEN <<>> ELSE Head(seqs) \o Concat(Tail(seqs))

\* file sizes stat reports; -1 stands for a rejected stat
Sizes == {1, LARGE_FILE_THRESHOLD + 1}
StatFailed == -1

VARIABLES
  tree,          \* the regular files below sourceDir (directories are implied)
  unreadable,    \* directories whose readdir rejects
  numCPUs,       \* os.cpus().length
  faulty,        \* files whose file-system operations may fail
  destFiles,     \* regular files below destinationDir
  destDirs,      \* directories at or below destinationDir
  opened,        \* directories readdir was called on
  pc,            \* position of main()
  totalFiles, copiedFiles, skippedFiles,
  filesToCopy,   \* the work set
  chunks,        \* the partition of the work set
  workers,       \* workers[w] = workerData.chunk of the w-th spawned worker
  wstate,        \* "running" | "exited" per worker
  wi,            \* loop variable i of the worker's batch loop
  wj,            \* files of the current batch already processed
  exitCode,      \* exit code of an exited worker, -1 while running
  port,          \* messages posted by the worker, not yet delivered
  sent,          \* every message the worker posted, in order
  handled,       \* every message of the worker the 'message' listener saw
  io,            \* result of the file-system operations per processed file
  exitSeen,      \* the worker's 'exit' event was delivered
  summary,       \* the summaries printed
  processExit    \* exit code of the process, -1 while alive

vars == <<tree, unreadable, numCPUs, faulty, destFiles, destDirs, opened, pc, totalFiles, copiedFiles, skippedFiles,
          filesToCopy, chunks, workers, wstate, wi, wj, exitCode, port, sent,
          handled, io, exitSeen, summary, processExit>>

envVars == <<tree, unreadable, numCPUs, faulty>>
destVars == <<destFiles, destDirs>>
countVars == <<totalFiles, copiedFiles, skippedFiles>>
mainVars == <<pc, totalFiles, copiedFiles, skippedFiles, filesToCopy, chunks,
              workers, handled, exitSeen, summary, processExit>>

\* --------------------------------------------------------- the source tree
IsFile(p) == p \in tree
IsDirectory(p) == \E f \in tree : IsProperPrefix(p, f)

\* a tree is well formed when no regular file has children
WellFormed(t) == \A f \in t, g \in t : ~IsProperPrefix(f, g)

Trees(u) == { t \in SUBSET u : Cardinality(t) <= MaxFiles /\ WellFormed(t) }

\* fs.promises.readdir(dir, {withFileTypes: true}): the entry names in order
Readdir(dir) ==
  SelectSeq(NameOrder,
            LAMBDA name : IsFile(PathJoin(dir, name)) \/ IsDirectory(PathJoin(dir, name)))

\* ------------------------------------------------------- src/index.ts 66-85
shouldIgnore_Prefix(filePath, isDirectory) ==
  LET relativePath == Relative(filePath)
      parts == Split(relativePath)
  IN  IF Includes(parts, <<"System Volume Information">>) THEN TRUE
      ELSE IF Includes(parts, <<".git">>) THEN TRUE
      ELSE \E pattern \in ignoredPaths : StartsWith(relativePath, pattern)

shouldIgnore(filePath, isDirectory) ==
  LET relativePath == Relative(filePath)
      parts == Split(relativePath)
  IN  IF Includes(parts, <<"System Volume Information">>) THEN TRUE
      ELSE IF Includes(parts, <<".git">>) THEN TRUE
      ELSE IF isDirectory
           THEN \E n \in 1..Len(parts) : parts[n] \in ignoredPaths
           ELSE \E pattern \in ignoredPaths : StartsWith(relativePath, pattern)

\* ------------------------------------------------------ src/index.ts 96-114
\* the result is [err |-> TRUE] when a readdir rejected, the count otherwise;
\* log holds the directories readdir was called on
RECURSIVE countFiles(_, _), countEntries(_, _, _, _)
countFiles_Tolerant(dir, log) ==
  IF dir \in unreadable THEN [err |-> FALSE, count |-> 0, log |-> log \cup {dir}]
  ELSE countEntries(dir, Readdir(dir), 0, log \cup {dir})

countFiles(dir, log) ==
  IF dir \in unreadable THEN [err |-> TRUE, count |-> 0, log |-> log \cup {dir}]
  ELSE countEntries(dir, Readdir(dir), 0, log \cup {dir})

countEntries_CountIgnored(dir, entries, count, log) ==
  IF entries = <<>> THEN [err |-> FALSE, count |-> count, log |-> log]
  ELSE LET fullPath == PathJoin(dir, Head(entries))
       IN  IF IsDirectory(fullPath)
           THEN IF ~shouldIgnore(fullPath, TRUE)
                THEN LET sub == countFiles(fullPath, log)
                     IN  IF sub.err THEN sub
                         ELSE countEntries(dir, Tail(entries), count + sub.count, sub.log)
                ELSE countEntries(dir, Tail(entries), count, log)
           ELSE countEntries(dir, Tail(entries), count + 1, log)

countEntries_Shallow(dir, entries, count, log) ==
  IF entries = <<>> THEN [err |-> FALSE, count |-> count, log |-> log]
  ELSE LET fullPath == PathJoin(dir, Head(entries))
       IN  IF IsDirectory(fullPath)
           THEN IF ~shouldIgnore(fullPath, TRUE)
                THEN LET sub == countFiles(fullPath, log)
                     IN  IF sub.err THEN sub
                         ELSE countEntries(dir, Tail(entries), count, sub.log)
                ELSE countEntries(dir, Tail(entries), count, log)
           ELSE IF ~shouldIgnore(fullPath, FALSE)
                THEN countEntries(dir, Tail(entries), count + 1, log)
                ELSE countEntries(dir, Tail(entries), count, log)

countEntries(dir, entries, count, log) ==
  IF entries = <<>> THEN [err |-> FALSE, count |-> count, log |-> log]
  ELSE LET fullPath == PathJoin(dir, Head(entries))
       IN  IF IsDirectory(fullPath)
           THEN IF ~shouldIgnore(fullPath, TRUE)
                THEN LET sub == countFiles(fullPath, log)
                     IN  IF sub.err THEN sub
                         ELSE countEntries(dir, Tail(entries), count + sub.count, sub.log)
                ELSE countEntries(dir, Tail(entries), count, log)
           ELSE IF ~shouldIgnore(fullPath, FALSE)
                THEN countEntries(dir, Tail(entries), count + 1, log)
                ELSE countEntries(dir, Tail(entries), count, log)

\* ----------------------------------------------------- src/index.ts 121-138
\* dir and base name the same directory: base is dir relative to sourceDir
RECURSIVE collectFiles(_, _, _), collectEntries(_, _, _, _)
collectFiles(dir, result, log) ==
  IF dir \in unreadable THEN [err |-> TRUE, result |-> result, log |-> log \cup {dir}]
  ELSE collectEntries(dir, Readdir(dir), result, log \cup {dir})

collectEntries(dir, entries, result, log) ==
  IF entries = <<>> THEN [err |-> FALSE, result |-> result, log |-> log]
  ELSE LET relativePath == PathJoin(dir, Head(entries))
           fullPath == PathJoin(dir, Head(entries))
       IN  IF IsDirectory(fullPath)
           THEN IF ~shouldIgnore(fullPath, TRUE)
                THEN LET sub == collectFiles(fullPath, result, log)
                     IN  IF sub.err THEN sub
                         ELSE collectEntries(dir, Tail(entries), sub.result, sub.log)
                ELSE collectEntries(dir, Tail(entries), result, log)
           ELSE IF ~shouldIgnore(fullPath, FALSE)
                THEN collectEntries(dir, Tail(entries), Append(result, relativePath), log)
                ELSE collectEntries(dir, Tail(entries), result, log)


\* ------------------------------------------------------------------- Init
NoWorkers == <<>>

\* the program state when main() is entered
Start ==
  /\ pc = "start"
  /\ totalFiles = 0 /\ copiedFiles = 0 /\ skippedFiles = 0
  /\ filesToCopy = <<>>
  /\ chunks = <<>>
  /\ workers = NoWorkers
  /\ wstate = <<>> /\ wi = <<>> /\ wj = <<>> /\ exitCode = <<>>
  /\ port = <<>> /\ sent = <<>> /\ handled = <<>> /\ io = <<>>
  /\ exitSeen = <<>>
  /\ opened = {}
  /\ processExit = -1

\* a source tree, a host, an empty destination and an empty terminal
Env ==
  /\ tree \in Trees(FileUniverse)
  /\ unreadable \in { d \in SUBSET DirUniverse :
                         /\ Cardinality(d) <= 1
                         /\ \A p \in d : p = <<>> \/ IsDirectory(p) }
  /\ numCPUs \in 1..MaxCPUs
  /\ destFiles = {} /\ destDirs = {}
  /\ summary = <<>>

\* any file-system operation of a worker may fail
Init ==
  /\ Env
  /\ faulty = FileUniverse
  /\ Start

\* main().catch, src/index.ts 231-234: console.error, process.exit(1)
MainCatch ==
  /\ pc' = "failed"
  /\ processExit' = 1

\* ------------------------------------------------- src/index.ts 165-167
MainCount ==
  /\ pc = "start"
  /\ LET r == countFiles(<<>>, opened)
     IN  /\ opened' = r.log
         /\ IF r.err
            THEN /\ MainCatch
                 /\ UNCHANGED totalFiles
            ELSE /\ totalFiles' = r.count
                 /\ pc' = "counted"
                 /\ UNCHANGED processExit
  /\ UNCHANGED <<envVars, destVars, copiedFiles, skippedFiles, filesToCopy, chunks, workers,
                 wstate, wi, wj, exitCode, port, sent, handled, io, exitSeen, summary>>

\* ------------------------------------------------- src/index.ts 169-171
MainCollect ==
  /\ pc = "counted"
  /\ LET r == collectFiles(<<>>, <<>>, opened)
     IN  /\ opened' = r.log
         /\ IF r.err
            THEN /\ MainCatch
                 /\ UNCHANGED filesToCopy
            ELSE /\ filesToCopy' = r.result
                 /\ pc' = "collected"
                 /\ UNCHANGED processExit
  /\ UNCHANGED <<envVars, destVars, countVars, chunks, workers,
                 wstate, wi, wj, exitCode, port, sent, handled, io, exitSeen, summary>>

\* ------------------------------------------------- src/index.ts 174-178
chunkSize_Floor(files, n) == Len(files) \div n

chunkSize_FloorPlusOne(files, n) == (Len(files) \div n) + 1

chunkSize(files, n) == Ceil(Len(files), n)

Partition_Overlap(files, n) ==
  [i \in 1..n |-> Slice(files, (i - 1) * chunkSize(files, n), i * chunkSize(files, n) + 1)]

Partition_NonEmpty(files, n) ==
  LET k == IF Len(files) < n THEN Len(files) ELSE n
  IN  [i \in 1..k |-> Slice(files, (i - 1) * chunkSize(files, n), i * chunkSize(files, n))]

Partition(files, n) ==
  [i \in 1..n |-> Slice(files, (i - 1) * chunkSize(files, n), i * chunkSize(files, n))]

\* ------------------------------------------------- src/index.ts 149-154, 181
\* one worker per chunk; workerData.chunk of the w-th worker is chunks[w]
SpawnAll_NonEmpty(cs) == SelectSeq(cs, LAMBDA c : c # <<>>)

SpawnAll_SameChunk(cs) == [w \in 1..Len(cs) |-> cs[1]]

SpawnAll(cs) == [w \in 1..Len(cs) |-> cs[w]]

\* src/index.ts 215-223
Summary == [totalFiles |-> totalFiles, copiedFiles |-> copiedFiles,
            skippedFiles |-> skippedFiles]

\* src/index.ts 173-213, up to the await of the join
MainSpawn ==
  /\ pc = "collected"
  /\ chunks' = Partition(filesToCopy, numCPUs)
  /\ workers' = SpawnAll(chunks')
  /\ wstate' = [w \in 1..Len(workers') |-> "running"]
  /\ wi' = [w \in 1..Len(workers') |-> 0]
  /\ wj' = [w \in 1..Len(workers') |-> 0]
  /\ exitCode' = [w \in 1..Len(workers') |-> -1]
  /\ port' = [w \in 1..Len(workers') |-> <<>>]
  /\ sent' = [w \in 1..Len(workers') |-> <<>>]
  /\ handled' = [w \in 1..Len(workers') |-> <<>>]
  /\ io' = [w \in 1..Len(workers') |-> <<>>]
  /\ exitSeen' = [w \in 1..Len(workers') |-> FALSE]
  /\ IF Len(workers') = 0
     THEN \* Promise.all of no promise is resolved: main runs to its end
          /\ summary' = Append(summary, Summary)
          /\ pc' = "done"
          /\ processExit' = 0
     ELSE /\ pc' = "copying"
          /\ UNCHANGED <<summary, processExit>>
  /\ UNCHANGED <<envVars, destVars, opened, countVars, filesToCopy>>


\* ------------------------------------------------------------ src/worker.ts
Workers == 1..Len(workers)

NoFile == <<>>
Message(status, file, error) == [status |-> status, file |-> file, error |-> error]

\* what the file system answers while one file is processed
FsResults ==
  [ensureDir : BOOLEAN, stat : Sizes \cup {StatFailed}, copy : BOOLEAN, copyFile : BOOLEAN]

\* the answers possible for one file: nothing fails on a file that is not faulty
FsAnswers(file) ==
  IF file \in faulty THEN FsResults
  ELSE { fs \in FsResults : fs.ensureDir /\ fs.stat # StatFailed /\ fs.copy /\ fs.copyFile }

\* fs.ensureDir of fs-extra (mkdir -p): a directory that exists is no error
FsEnsureDir_Exclusive(ok, exists) == ok /\ ~exists

FsEnsureDir(ok, exists) == ok

\* fs.copy of fs-extra with its default options: overwrite is true
FsCopy(ok, exists) == ok

\* fs.promises.copyFile: it replaces dest unless the mode is COPYFILE_EXCL
FsCopyFile(ok, exists, excl) == ok /\ ~(excl /\ exists)

\* src/worker.ts 26-39: the operation that threw, "none" when the copy succeeded;
\* exists tells whether destPath is there already
copyFile_Excl(fs, exists) ==
  IF fs.stat = StatFailed THEN "stat"
  ELSE IF fs.stat > LARGE_FILE_THRESHOLD
       THEN IF FsCopy(fs.copy, exists) THEN "none" ELSE "copy"
       ELSE IF FsCopyFile(fs.copyFile, exists, TRUE) THEN "none" ELSE "copyFile"

copyFile(fs, exists) ==
  IF fs.stat = StatFailed THEN "stat"
  ELSE IF fs.stat > LARGE_FILE_THRESHOLD
       THEN IF FsCopy(fs.copy, exists) THEN "none" ELSE "copy"
       ELSE IF FsCopyFile(fs.copyFile, exists, FALSE) THEN "none" ELSE "copyFile"

\* src/worker.ts 46-54: the try block of one file of the batch
tryCopy(fs, dirExists, fileExists) ==
  IF ~FsEnsureDir(fs.ensureDir, dirExists) THEN "ensureDir" ELSE copyFile(fs, fileExists)

\* path.dirname, and the directories mkdir -p makes sure of
Dirname(file) == SubSeq(file, 1, Len(file) - 1)
Ancestors(dir) == { SubSeq(dir, 1, k) : k \in 0..Len(dir) }

\* src/worker.ts 49-53: the message posted for one file
Outcome_StatSwallowed(file, thrown) ==
  IF thrown \in {"none", "stat"} THEN Message("copied", file, "")
  ELSE Message("skipped", file, thrown)

Outcome(file, thrown) ==
  IF thrown = "none" THEN Message("copied", file, "")
  ELSE Message("skipped", file, thrown)

Post(w, message) ==
  /\ port' = [port EXCEPT ![w] = Append(@, message)]
  /\ sent' = [sent EXCEPT ![w] = Append(@, message)]

\* src/worker.ts 61-62
Batch_Inclusive(w) == Slice(workers[w], wi[w], wi[w] + BATCH_SIZE + 1)

Batch(w) == Slice(workers[w], wi[w], wi[w] + BATCH_SIZE)

\* src/worker.ts 43-55 inside 61-64: one file of the current batch, from the
\* ensureDir call to the postMessage, and the loop bookkeeping that follows
WorkerCopyFile(w) ==
  /\ pc = "copying"
  /\ wstate[w] = "running"
  /\ wi[w] < Len(workers[w])
  /\ LET file == Batch(w)[wj[w] + 1]
     IN  \E fs \in FsAnswers(file) :
           LET thrown == tryCopy(fs, Dirname(file) \in destDirs, file \in destFiles)
           IN  /\ Post(w, Outcome(file, thrown))
               /\ io' = [io EXCEPT ![w] = Append(@, thrown)]
               /\ destDirs' = IF thrown = "ensureDir" THEN destDirs
                              ELSE destDirs \cup Ancestors(Dirname(file))
               /\ destFiles' = IF thrown = "none" THEN destFiles \cup {file}
                               ELSE destFiles
  /\ IF wj[w] + 1 < Len(Batch(w))
     THEN /\ wj' = [wj EXCEPT ![w] = @ + 1]
          /\ UNCHANGED wi
     ELSE /\ wj' = [wj EXCEPT ![w] = 0]
          /\ wi' = [wi EXCEPT ![w] = @ + BATCH_SIZE]
  /\ UNCHANGED <<envVars, opened, mainVars, wstate, exitCode>>

\* src/worker.ts 66-67: the chunk is exhausted
WorkerDone_Early(w) ==
  /\ pc = "copying"
  /\ wstate[w] = "running"
  /\ Post(w, Message("done", NoFile, ""))
  /\ exitCode' = [exitCode EXCEPT ![w] = 0]
  /\ wstate' = [wstate EXCEPT ![w] = "exited"]
  /\ UNCHANGED <<envVars, destVars, opened, mainVars, wi, wj, io>>

WorkerDone_NoExit(w) ==
  /\ pc = "copying"
  /\ wstate[w] = "running"
  /\ wi[w] >= Len(workers[w])
  /\ \A n \in 1..Len(sent[w]) : sent[w][n].status # "done"
  /\ Post(w, Message("done", NoFile, ""))
  /\ UNCHANGED <<envVars, destVars, opened, mainVars, wstate, exitCode, wi, wj, io>>

WorkerDone(w) ==
  /\ pc = "copying"
  /\ wstate[w] = "running"
  /\ wi[w] >= Len(workers[w])
  /\ Post(w, Message("done", NoFile, ""))
  /\ exitCode' = [exitCode EXCEPT ![w] = 0]
  /\ wstate' = [wstate EXCEPT ![w] = "exited"]
  /\ UNCHANGED <<envVars, destVars, opened, mainVars, wi, wj, io>>

\* src/worker.ts 68-72: an error escaped the batch loop (raised by the runtime,
\* copyBatch itself catches every file-level error): the worker posts 'error'
\* and stops with exit code 1, its remaining files unprocessed
WorkerFatal(w) ==
  /\ pc = "copying"
  /\ wstate[w] = "running"
  /\ Post(w, Message("error", NoFile, "fatal"))
  /\ exitCode' = [exitCode EXCEPT ![w] = 1]
  /\ wstate' = [wstate EXCEPT ![w] = "exited"]
  /\ UNCHANGED <<envVars, destVars, opened, mainVars, wi, wj, io>>

\* ------------------------------------------------- src/index.ts 185-195
\* the 'message' listener: the counters after the message
onMessage_DropSkipped(message, copied, skipped) ==
  IF message.status = "copied" THEN [copied |-> copied + 1, skipped |-> skipped]
  ELSE [copied |-> copied, skipped |-> skipped]

onMessage_Uncount(message, copied, skipped) ==
  IF message.status = "copied" THEN [copied |-> copied + 1, skipped |-> skipped]
  ELSE IF message.status = "skipped" THEN [copied |-> copied - 1, skipped |-> skipped + 1]
  ELSE [copied |-> copied, skipped |-> skipped]

onMessage_CountDone(message, copied, skipped) ==
  IF message.status = "skipped" THEN [copied |-> copied, skipped |-> skipped + 1]
  ELSE [copied |-> copied + 1, skipped |-> skipped]

onMessage_OrderDependent(message, copied, skipped) ==
  IF message.status = "copied" THEN [copied |-> copied + 1, skipped |-> skipped]
  ELSE IF message.status = "skipped" /\ copied > 0
       THEN [copied |-> copied, skipped |-> skipped + 1]
       ELSE [copied |-> copied, skipped |-> skipped]

onMessage(message, copied, skipped) ==
  IF message.status = "copied" THEN [copied |-> copied + 1, skipped |-> skipped]
  ELSE IF message.status = "skipped" THEN [copied |-> copied, skipped |-> skipped + 1]
  ELSE [copied |-> copied, skipped |-> skipped]

MainOnMessage(w) ==
  /\ pc = "copying"
  /\ port[w] # <<>>
  /\ LET message == Head(port[w])
         c == onMessage(message, copiedFiles, skippedFiles)
     IN  /\ copiedFiles' = c.copied
         /\ skippedFiles' = c.skipped
         /\ handled' = [handled EXCEPT ![w] = Append(@, message)]
  /\ port' = [port EXCEPT ![w] = Tail(@)]
  /\ UNCHANGED <<envVars, destVars, opened, pc, totalFiles, filesToCopy, chunks, workers,
                 wstate, wi, wj, exitCode, sent, io, exitSeen, summary, processExit>>

\* ------------------------------------------------- src/index.ts 208-213
\* the promise of one worker: settled by its 'exit' event
Settle_Always(code) == "resolve"

Settle(code) == IF code = 0 THEN "resolve" ELSE "reject"

\* the 'exit' event of a worker is emitted once its port is drained;
\* Promise.all rejects with the first rejection and resolves with the last
\* resolution, and main continues in the same turn of the event loop
MainOnExit(w) ==
  /\ pc = "copying"
  /\ wstate[w] = "exited"
  /\ port[w] = <<>>
  /\ ~exitSeen[w]
  /\ exitSeen' = [exitSeen EXCEPT ![w] = TRUE]
  /\ IF Settle(exitCode[w]) = "reject"
     THEN /\ MainCatch
          /\ UNCHANGED summary
     ELSE IF \A v \in Workers : exitSeen'[v]
          THEN /\ summary' = Append(summary, Summary)
               /\ pc' = "done"
               /\ processExit' = 0
          ELSE UNCHANGED <<pc, summary, processExit>>
  /\ UNCHANGED <<envVars, destVars, opened, countVars, filesToCopy, chunks, workers,
                 wstate, wi, wj, exitCode, port, sent, handled, io>>

Next ==
  \/ MainCount
  \/ MainCollect
  \/ MainSpawn
  \/ \E w \in Workers : WorkerCopyFile(w)
  \/ \E w \in Workers : WorkerDone(w)
  \/ \E w \in Workers : WorkerFatal(w)
  \/ \E w \in Workers : MainOnMessage(w)
  \/ \E w \in Workers : MainOnExit(w)

Spec == Init /\ [][Next]_vars

\* the scheduling of the worker threads and of the event loop of main is fair;
\* nothing obliges a worker to die
Fairness ==
  /\ WF_vars(MainCount)
  /\ WF_vars(MainCollect)
  /\ WF_vars(MainSpawn)
  /\ \A w \in 1..(MaxCPUs + 1) :
       /\ WF_vars(w \in Workers /\ WorkerCopyFile(w))
       /\ WF_vars(w \in Workers /\ WorkerDone(w))
       /\ WF_vars(w \in Workers /\ MainOnMessage(w))
       /\ WF_vars(w \in Workers /\ MainOnExit(w))

FairSpec == Spec /\ Fairness

\* ------------------------------------------------ the tree changes under main
\* another process adds or removes files after countFiles has returned and
\* before collectFiles starts (src/index.ts between 167 and 171)
TreeChange ==
  /\ pc = "counted"
  /\ tree' \in Trees(FileUniverse) \ {tree}
  /\ UNCHANGED <<unreadable, numCPUs, faulty, destVars, opened, mainVars,
                 wstate, wi, wj, exitCode, port, sent, io>>

\* the enumeration and the partition of main, on a tree that is not static
NextRace ==
  \/ MainCount
  \/ TreeChange
  \/ MainCollect
  \/ MainSpawn

RaceSpec == Init /\ [][NextRace]_vars

\* ------------------------------------------------------ the program is run again
\* after a run that ended with the summary the same command is started on the
\* same source tree and the same destination: a new process enters main()
MainRerun ==
  /\ pc = "done"
  /\ Len(summary) < MaxRuns
  /\ pc' = "start"
  /\ totalFiles' = 0 /\ copiedFiles' = 0 /\ skippedFiles' = 0
  /\ filesToCopy' = <<>>
  /\ chunks' = <<>>
  /\ workers' = NoWorkers
  /\ wstate' = <<>> /\ wi' = <<>> /\ wj' = <<>> /\ exitCode' = <<>>
  /\ port' = <<>> /\ sent' = <<>> /\ handled' = <<>> /\ io' = <<>>
  /\ exitSeen' = <<>>
  /\ opened' = {}
  /\ processExit' = -1
  /\ UNCHANGED <<envVars, destVars, summary>>

\* no file-system operation fails for a reason of its own
InitRerun ==
  /\ Env
  /\ faulty = {}
  /\ Start

NextRerun ==
  \/ MainCount
  \/ MainCollect
  \/ MainSpawn
  \/ \E w \in Workers : WorkerCopyFile(w)
  \/ \E w \in Workers : WorkerDone(w)
  \/ \E w \in Workers : MainOnMessage(w)
  \/ \E w \in Workers : MainOnExit(w)
  \/ MainRerun

RerunSpec == InitRerun /\ [][NextRerun]_vars

\* ------------------------------------------------------------- long chunks
\* the n-th file of a flat source directory
BatchFile(n) == << <<"f", ToString(n)>> >>

\* chunk lengths around the batch boundaries
BatchLens == { l \in 0..(MaxBatches * BATCH_SIZE + 1) :
                 \E k \in 0..MaxBatches : l \in {k * BATCH_SIZE - 1, k * BATCH_SIZE, k * BATCH_SIZE + 1} }

\* main has collected a flat directory of L files on a host with one CPU; the
\* files next to the first batch boundary may fail to copy
InitBatch ==
  /\ \E L \in BatchLens :
       /\ filesToCopy = [n \in 1..L |-> BatchFile(n)]
       /\ tree = { BatchFile(n) : n \in 1..L }
       /\ totalFiles = L
  /\ unreadable = {}
  /\ numCPUs = 1
  /\ faulty \in { {}, {BatchFile(BATCH_SIZE), BatchFile(BATCH_SIZE + 1)} }
  /\ destFiles = {} /\ destDirs = {}
  /\ summary = <<>>
  /\ pc = "collected"
  /\ copiedFiles = 0 /\ skippedFiles = 0
  /\ chunks = <<>>
  /\ workers = NoWorkers
  /\ wstate = <<>> /\ wi = <<>> /\ wj = <<>> /\ exitCode = <<>>
  /\ port = <<>> /\ sent = <<>> /\ handled = <<>> /\ io = <<>>
  /\ exitSeen = <<>>
  /\ opened = { <<>> }
  /\ processExit = -1

NextBatch ==
  \/ MainSpawn
  \/ \E w \in Workers : WorkerCopyFile(w)
  \/ \E w \in Workers : WorkerDone(w)

BatchSpec == InitBatch /\ [][NextBatch]_vars

\* ------------------------------------------------------------ vocabulary
\* the work set was partitioned and the workers were spawned
Partitioned == chunks # <<>>

CountStatus(msgs, status) == Len(SelectSeq(msgs, LAMBDA m : m.status = status))

RECURSIVE SumStatus(_, _, _)
SumStatus(log, status, n) ==
  IF n = 0 THEN 0 ELSE CountStatus(log[n], status) + SumStatus(log, status, n - 1)

\* the 'copied' and 'skipped' messages of a log, in order
Outcomes(msgs) == SelectSeq(msgs, LAMBDA m : m.status \in {"copied", "skipped"})

AnyFatal == \E w \in Workers : exitCode[w] > 0

\* how many 'copied' or 'skipped' messages of msgs name file
Named(msgs, file) == Len(SelectSeq(Outcomes(msgs), LAMBDA m : m.file = file))

RECURSIVE SumNamed(_, _, _)
SumNamed(log, file, n) ==
  IF n = 0 THEN 0 ELSE Named(log[n], file) + SumNamed(log, file, n - 1)

\* the files worker w tried to write below destinationDir, in order: those
\* for which ensureDir and stat did not throw
Writes(w) ==
  LET tried == SelectSeq([n \in 1..Len(io[w]) |-> [file |-> workers[w][n], thrown |-> io[w][n]]],
                         LAMBDA r : r.thrown \notin {"ensureDir", "stat"})
  IN  [n \in 1..Len(tried) |-> tried[n].file]

\* how many files of the log of thrown operations ended as ok tells
CountThrown(thrown, ok) ==
  Len(SelectSeq(thrown, LAMBDA t : (t = "none") = ok))

RECURSIVE SumThrown(_, _, _)
SumThrown(log, ok, n) ==
  IF n = 0 THEN 0 ELSE CountThrown(log[n], ok) + SumThrown(log, ok, n - 1)

\* the directory names the enumerator is configured to ignore
IgnoreNames == ignoredPaths \cup { <<".git">> }

\* the per-file details a printed summary carries
SkippedDetails(s) == IF "skippedDetails" \in DOMAIN s THEN s.skippedDetails ELSE <<>>

\* ------------------------------------------------------------------ claims

\* C1: when main prints the summary of a run in which no worker terminated
\* with a fatal error, copiedFiles + skippedFiles equals totalFiles.
C1_Completeness ==
  \A n \in 1..Len(summary) :
    ~AnyFatal => summary[n].copiedFiles + summary[n].skippedFiles = summary[n].totalFiles

C1_Witness ==
  /\ pc = "done"
  /\ Len(summary) = 1
  /\ summary[1].totalFiles = 3
  /\ summary[1].copiedFiles >= 1
  /\ summary[1].skippedFiles >= 1

\* C2: every 'copied' or 'skipped' message a worker posted has been handled,
\* and counted exactly once, when the join on the worker's 'exit' event
\* settles and when the summary is computed.
C2_NoLostUpdates ==
  /\ \A w \in Workers : exitSeen[w] => (port[w] = <<>> /\ handled[w] = sent[w])
  /\ copiedFiles = SumStatus(handled, "copied", Len(handled))
  /\ skippedFiles = SumStatus(handled, "skipped", Len(handled))
  /\ \A n \in 1..Len(summary) :
       /\ summary[n].copiedFiles = SumStatus(sent, "copied", Len(sent))
       /\ summary[n].skippedFiles = SumStatus(sent, "skipped", Len(sent))

C2_Witness ==
  /\ pc = "done"
  /\ Len(workers) = 2
  /\ CountStatus(sent[1], "skipped") >= 1
  /\ CountStatus(sent[1], "copied") >= 1
  /\ CountStatus(sent[2], "skipped") >= 1
  /\ handled = sent

\* C3: the chunks concatenated in chunk-index order are the work set, every
\* file is in exactly one chunk, and there are at most numCPUs chunks.
C3_PartitionExact ==
  Partitioned =>
    /\ Concat(chunks) = filesToCopy
    /\ Len(chunks) <= numCPUs
    /\ \A n \in 1..Len(filesToCopy) :
         Cardinality({ ck \in { <<c, k>> : c \in 1..Len(chunks), k \in 1..MaxFiles + 1 } :
                         /\ ck[2] <= Len(chunks[ck[1]])
                         /\ chunks[ck[1]][ck[2]] = filesToCopy[n] }) = 1

C3_Witness ==
  /\ pc = "copying"
  /\ numCPUs = 2
  /\ Len(filesToCopy) = 3
  /\ Len(chunks[1]) = 2
  /\ Len(chunks[2]) = 1

\* C4 (as claimed): the coordinator leaves the Copying phase, by the summary or
\* by terminating the process, only when every spawned worker has terminated,
\* and it prints at most one summary.
C4_JoinSemantics ==
  /\ (Partitioned /\ pc \in {"done", "failed"}) => \A w \in Workers : wstate[w] = "exited"
  /\ Len(summary) <= 1

\* C5 (as claimed): a run whose enumeration succeeded ends with the summary
\* printed, also when a worker terminated with a fatal error.
C5_SummaryOnDegradedRun ==
  (Partitioned /\ processExit # -1) => Len(summary) = 1

\* C6: a run in which a worker terminated with a non-zero exit code never ends
\* as a successful run: no summary of a clean completion, and once the exit
\* of that worker is seen the process exits with code 1.
C6_NoSilentSuccess ==
  /\ AnyFatal => (pc # "done" /\ processExit # 0 /\ summary = <<>>)
  /\ \A w \in Workers : (exitSeen[w] /\ exitCode[w] > 0) => (pc = "failed" /\ processExit = 1)

C6_Witness ==
  /\ pc = "failed"
  /\ processExit = 1
  /\ \E w \in Workers : exitSeen[w] /\ exitCode[w] = 1
  /\ \E w \in Workers : exitCode[w] = 0

\* C7: a failure of ensureDir, stat or copy for a file yields a 'skipped'
\* message for that file; the worker stays alive, goes on with the next file
\* and ends with exit code 0; other workers are not affected.
C7_OutcomePerFile ==
  \A w \in Workers :
    /\ Len(Outcomes(sent[w])) = Len(io[w])
    /\ \A n \in 1..Len(io[w]) :
         /\ Outcomes(sent[w])[n].file = workers[w][n]
         /\ io[w][n] # "none" => Outcomes(sent[w])[n].status = "skipped"
    /\ exitCode[w] = 0 => Len(io[w]) = Len(workers[w])

C7_FailureStep ==
  \A w \in Workers :
    (Len(io'[w]) > Len(io[w]) /\ io'[w][Len(io'[w])] # "none") =>
      /\ wstate'[w] = "running"
      /\ exitCode'[w] = -1
      /\ \A v \in Workers \ {w} :
           /\ wstate'[v] = wstate[v] /\ exitCode'[v] = exitCode[v]
           /\ wi'[v] = wi[v] /\ wj'[v] = wj[v]
           /\ sent'[v] = sent[v] /\ io'[v] = io[v]

C7_FileErrorsAreData == []C7_OutcomePerFile /\ [][C7_FailureStep]_vars

C7_Witness ==
  \E w \in Workers :
    /\ Len(io[w]) >= 2
    /\ io[w][1] \in {"ensureDir", "stat", "copy", "copyFile"}
    /\ Outcomes(sent[w])[2].status = "copied"
    /\ exitCode[w] = 0

C9_WorkersEqualCPUs ==
  pc \in {"copying", "done"} => Len(wstate) = numCPUs

C9_Witness ==
  /\ pc = "copying"
  /\ Len(filesToCopy) = 1
  /\ numCPUs = 2
  /\ Len(wstate) = 2

C11_CounterStep ==
  /\ copiedFiles' \in {copiedFiles, copiedFiles + 1}
  /\ skippedFiles' \in {skippedFiles, skippedFiles + 1}
  /\ (copiedFiles' # copiedFiles \/ skippedFiles' # skippedFiles)
       => \E w \in Workers : /\ port[w] # <<>>
                             /\ handled'[w] = Append(handled[w], Head(port[w]))

C11_MonotonicProgress == [][C11_CounterStep]_vars

C11_Witness ==
  /\ copiedFiles >= 1
  /\ skippedFiles >= 1
  /\ \E w \in Workers : CountStatus(handled[w], "done") = 1

\* C12: no file of the work set is named by more than one 'copied' or
\* 'skipped' message of the run, a worker that exhausted its chunk posted
\* exactly one such message per file of it, and copiedFiles + skippedFiles is
\* the number of these messages main has consumed.
C12_NoDoubleCounting ==
  /\ \A n \in 1..Len(filesToCopy) :
       SumNamed(sent, filesToCopy[n], Len(sent)) <= 1
  /\ \A w \in Workers :
       exitCode[w] = 0 =>
         /\ Len(Outcomes(sent[w])) = Len(workers[w])
         /\ \A n \in 1..Len(workers[w]) : Named(sent[w], workers[w][n]) = 1
  /\ copiedFiles + skippedFiles
       = SumStatus(handled, "copied", Len(handled)) + SumStatus(handled, "skipped", Len(handled))

C12_Witness ==
  /\ pc = "done"
  /\ totalFiles >= 2
  /\ copiedFiles >= 1
  /\ skippedFiles >= 1

\* C13: no file of the work set lies below a directory named by an ignore
\* name, at any depth, and the enumerator calls readdir on no directory that
\* is or lies below a directory so named.
C13_IgnoreCorrectness ==
  /\ \A n \in 1..Len(filesToCopy) :
       \A k \in 1..(Len(filesToCopy[n]) - 1) : filesToCopy[n][k] \notin IgnoreNames
  /\ \A d \in opened : \A k \in 1..Len(d) : d[k] \notin IgnoreNames

C13_Witness ==
  /\ pc = "collected"
  /\ <<N_sub, N_nm, N_x>> \in tree
  /\ <<N_git, N_config>> \in tree
  /\ <<N_sub>> \in opened
  /\ filesToCopy # <<>>

\* C14: when the source root cannot be read, the run fails before the
\* copying phase: nothing is partitioned, no worker is spawned, the
\* destination stays untouched and the process exits with code 1.
C14_FatalStart ==
  <<>> \in unreadable =>
    /\ pc \in {"start", "failed"}
    /\ ~Partitioned
    /\ workers = NoWorkers
    /\ destFiles = {} /\ destDirs = {}
    /\ pc = "failed" => processExit = 1

C14_Witness ==
  /\ <<>> \in unreadable
  /\ tree # {}
  /\ pc = "failed"
  /\ opened = { <<>> }

\* C15: a subdirectory that is not ignored and cannot be read does not make
\* the run fail during the enumeration: it contributes no file to the work
\* set and to totalFiles, and the run goes on to the copying phase.
C15_UnreadableSubdirTolerated ==
  \A d \in unreadable :
    (d # <<>> /\ ~shouldIgnore(d, TRUE)) =>
      /\ pc = "failed" => Partitioned
      /\ \A n \in 1..Len(filesToCopy) : ~IsPrefix(d, filesToCopy[n])

\* C17: every printed summary carries a log of skipped files that has
\* exactly skippedFiles entries.
C17_SkippedDetails ==
  \A n \in 1..Len(summary) :
    Len(SkippedDetails(summary[n])) = summary[n].skippedFiles

\* C19: every chunk has at most ceil(L / N) entries, and a chunk followed by
\* a non-empty chunk has exactly ceil(L / N) entries.
C19_ChunkSize ==
  Partitioned =>
    LET c == Ceil(Len(filesToCopy), numCPUs)
    IN  \A i \in 1..Len(chunks) :
          /\ Len(chunks[i]) <= c
          /\ (\E j \in (i + 1)..Len(chunks) : chunks[j] # <<>>) => Len(chunks[i]) = c

C19_Witness ==
  /\ Partitioned
  /\ Len(filesToCopy) = 3
  /\ numCPUs = 2
  /\ Len(chunks[1]) = 2
  /\ Len(chunks[2]) = 1

\* C16: when the work set is partitioned, totalFiles is the number of entries
\* of the sequence that is partitioned, also when the tree changed while main
\* was counting.
C16_TotalIsWorkSetLength ==
  Partitioned => totalFiles = Len(filesToCopy)

\* C18: on a file system where no operation fails for a reason of its own,
\* every run on the same tree and destination, the first and the later ones,
\* ends with copiedFiles = totalFiles and skippedFiles = 0, and no worker
\* ever posts 'skipped'.
C18_IdempotentRerun ==
  /\ \A n \in 1..Len(summary) :
       /\ summary[n].copiedFiles = summary[n].totalFiles
       /\ summary[n].skippedFiles = 0
  /\ \A w \in Workers : CountStatus(sent[w], "skipped") = 0

C18_Witness ==
  /\ Len(summary) = 2
  /\ summary[1].totalFiles >= 2
  /\ summary[2].copiedFiles = summary[1].totalFiles
  /\ \A n \in 1..Len(filesToCopy) : filesToCopy[n] \in destFiles

\* C20: the files named by the 'copied' and 'skipped' messages a worker has
\* posted are the first files of its chunk, in chunk order and each once, and
\* they are the whole chunk once the worker has posted 'done', whatever the
\* chunk length is relative to BATCH_SIZE.
C20_PerWorkerOrdering ==
  \A w \in Workers :
    LET posted == Outcomes(sent[w])
    IN  /\ Len(posted) <= Len(workers[w])
        /\ [n \in 1..Len(posted) |-> posted[n].file] = SubSeq(workers[w], 1, Len(posted))
        /\ CountStatus(sent[w], "done") = 1 => Len(posted) = Len(workers[w])

C20_Witness ==
  \E w \in Workers :
    /\ Len(workers[w]) = 2 * BATCH_SIZE + 1
    /\ CountStatus(sent[w], "done") = 1
    /\ CountStatus(sent[w], "skipped") = 2
    /\ CountStatus(sent[w], "copied") = 2 * BATCH_SIZE - 1

\* C21: a worker posts 'done' at most once and as its last message; it has
\* exit code 0 exactly when it has posted 'done', and then the messages
\* before 'done' are the outcome messages of all the files of its chunk.
C21_DoneSignal ==
  \A w \in Workers :
    /\ CountStatus(sent[w], "done") <= 1
    /\ exitCode[w] = 0 <=> CountStatus(sent[w], "done") = 1
    /\ CountStatus(sent[w], "done") = 1 =>
         /\ sent[w][Len(sent[w])].status = "done"
         /\ Len(sent[w]) = Len(workers[w]) + 1
         /\ \A n \in 1..Len(workers[w]) :
              /\ sent[w][n].status \in {"copied", "skipped"}
              /\ sent[w][n].file = workers[w][n]
         /\ wstate[w] = "exited"

C21_Witness ==
  \E w \in Workers :
    /\ Len(workers[w]) = 2
    /\ exitCode[w] = 0
    /\ sent[w][3].status = "done"

\* C22: workers exist only once the count, the collection and the partition
\* are complete, each worker holds the chunk of its index, and from the
\* partition on no step modifies the work set, the chunks or the workers.
C22_Frozen ==
  Partitioned =>
    /\ pc \in {"copying", "done", "failed"}
    /\ chunks = Partition(filesToCopy, numCPUs)
    /\ Len(workers) = Len(chunks)
    /\ \A w \in Workers : workers[w] = chunks[w]

C22_FrozenStep ==
  /\ (workers' # NoWorkers /\ workers = NoWorkers) => (pc = "collected" /\ Partitioned')
  /\ Partitioned =>
       /\ filesToCopy' = filesToCopy
       /\ chunks' = chunks
       /\ workers' = workers
       /\ totalFiles' = totalFiles

C22_FrozenWorkSet == []C22_Frozen /\ [][C22_FrozenStep]_vars

C22_Witness ==
  /\ pc = "done"
  /\ numCPUs = 2
  /\ Len(filesToCopy) = 3
  /\ workers[1] # workers[2]

\* C23: no destination file is written by two workers or twice by one worker,
\* and when no file-system operation fails for a reason of its own, ensureDir
\* never throws on a directory another worker or an earlier file created:
\* no worker reports 'skipped'.
C23_NoWriteConflicts ==
  /\ \A v, w \in Workers :
       \A m \in 1..Len(Writes(v)) : \A n \in 1..Len(Writes(w)) :
         Writes(v)[m] = Writes(w)[n] => (v = w /\ m = n)
  /\ \A w \in Workers :
       \A n \in 1..Len(io[w]) :
         /\ io[w][n] # "ensureDir"
         /\ Dirname(workers[w][n]) \in destDirs
         /\ Outcomes(sent[w])[n].status = "copied"

C23_Witness ==
  \E v, w \in Workers :
    /\ v # w
    /\ Len(Writes(v)) >= 1
    /\ Len(Writes(w)) >= 1
    /\ Dirname(Writes(v)[1]) = <<N_sub>>
    /\ Dirname(Writes(w)[1]) = <<N_sub>>

\* C24: when the summary is printed copiedFiles and skippedFiles are
\* determined by the outcomes of the files alone: the number of files whose
\* copy threw nothing and the number of files whose copy threw, whatever the
\* order in which main consumed the messages of the workers.
C24_OrderIndependence ==
  \A n \in 1..Len(summary) :
    /\ summary[n].copiedFiles = SumThrown(io, TRUE, Len(io))
    /\ summary[n].skippedFiles = SumThrown(io, FALSE, Len(io))

C24_Witness ==
  /\ pc = "done"
  /\ Len(workers) = 2
  /\ CountThrown(io[1], FALSE) >= 1
  /\ CountThrown(io[2], TRUE) >= 1
  /\ Len(handled[1]) = 3
  /\ summary[1].skippedFiles = 1

\* C25: shouldIgnore is true for every path of the tree, file or directory,
\* that has a component equal to an ignore name, and no such file is in the
\* work set.
C25_ComponentEquality ==
  \A f \in tree :
    (\E k \in 1..Len(f) : f[k] \in IgnoreNames) =>
      /\ shouldIgnore(f, FALSE)
      /\ \A n \in 1..Len(filesToCopy) : filesToCopy[n] # f

\* C26: copiedFiles + skippedFiles never exceeds totalFiles.
C26_ProgressBound ==
  copiedFiles + skippedFiles <= totalFiles

C26_Witness ==
  /\ pc = "copying"
  /\ totalFiles = 3
  /\ copiedFiles + skippedFiles = 3
  /\ skippedFiles >= 1

\* C27: under fair scheduling of the workers and of the event loop of main
\* every run terminates: either main prints the summary after every worker
\* has exited and its exit was seen, or the process exits with code 1.
C27_Terminated ==
  \/ /\ pc = "done"
     /\ processExit = 0
     /\ Len(summary) = 1
     /\ \A w \in Workers : wstate[w] = "exited" /\ exitSeen[w]
  \/ /\ pc = "failed"
     /\ processExit = 1

C27_RunTermination == <>C27_Terminated

C27_Witness ==
  /\ pc = "done"
  /\ Len(workers) = 2
  /\ totalFiles = 3
  /\ skippedFiles >= 1
  /\ C27_Terminated

====
